---- MODULE Spec2Model ----
(***************************************************************************)
(* Model of motulator's current-source converter models (_csc.py), the LC  *)
(* filter (_lc_filter.py) and the open-loop controller with its PLL        *)
(* (_csc_open_loop.py).                                                    *)
(*                                                                         *)
(* Real numbers (Python floats) are modelled as exact rationals            *)
(* [n |-> numerator, d |-> denominator > 0] in lowest terms; complex       *)
(* numbers as [re |-> rational, im |-> rational].  Angles are counted on a *)
(* circle discretised into quarter turns, so that exp(-j*theta) is exact.  *)
(***************************************************************************)
EXTENDS Integers, Sequences, FiniteSets, TLC

VARIABLES
    csc,      \* the converter object (CurrentSourceConverter or its inductive subclass)
    lc,       \* the LCFilter object
    ctrl,     \* the OpenLoopController with its PLL (gains, state) and T_s
    fbk,      \* the PLLOutputSignals of the running control sample (or None)
    grid,     \* the balanced grid voltage the PCC measurement sees: [e, w, theta]
    t,        \* the accepted time vector of the run
    written,  \* names of the inputs the driver has written since construction
    ret       \* what the last call did: [sys, op, outcome, val]

vars == <<csc, lc, ctrl, fbk, grid, t, written, ret>>

None == "None"

-----------------------------------------------------------------------------
(* Bounds of the model *)

\* longest accepted time vector / history explored
MaxSteps == 2
\* largest |i_dc| (A) and |u_c_ab|, |i_g_ab| components the integrator may reach
MaxAbs == 12
\* largest |w_g| and |u_g| the PLL update may reach
MaxPll == 4

-----------------------------------------------------------------------------
(* Exact arithmetic standing for Python's float and complex arithmetic *)

Abs(x) == IF x < 0 THEN -x ELSE x

RECURSIVE GCD(_, _)
GCD(a, b) == IF b = 0 THEN a ELSE GCD(b, a % b)

\* n/d in lowest terms, d # 0
Rat(n, d) ==
    LET s == IF d < 0 THEN -1 ELSE 1
        g == GCD(Abs(n), Abs(d))
    IN  [n |-> (s * n) \div g, d |-> (s * d) \div g]

R(i) == [n |-> i, d |-> 1]
RAdd(a, b) == Rat(a.n * b.d + b.n * a.d, a.d * b.d)
RNeg(a) == [n |-> -a.n, d |-> a.d]
RSub(a, b) == RAdd(a, RNeg(b))
RMul(a, b) == Rat(a.n * b.n, a.d * b.d)
\* a / b for b # 0
RQuot(a, b) == Rat(a.n * b.d, a.d * b.n)
RIsZero(a) == a.n = 0
RLess(a, b) == a.n * b.d < b.n * a.d
RAbs(a) == [n |-> Abs(a.n), d |-> a.d]
RIsInt(a) == a.d = 1

\* the float literal 1.5
OneAndHalf == Rat(3, 2)

Cx(re, im) == [re |-> re, im |-> im]
\* the complex literal a+bj with integer parts
Z(a, b) == Cx(R(a), R(b))
\* a float used where a complex is expected: x + 0j
CReal(x) == Cx(x, R(0))
CAdd(z, w) == Cx(RAdd(z.re, w.re), RAdd(z.im, w.im))
CSub(z, w) == Cx(RSub(z.re, w.re), RSub(z.im, w.im))
CMul(z, w) ==
    Cx(RSub(RMul(z.re, w.re), RMul(z.im, w.im)),
       RAdd(RMul(z.re, w.im), RMul(z.im, w.re)))
\* np.conj / complex.conjugate
CConj(z) == Cx(z.re, RNeg(z.im))
\* np.real / .real
Real(z) == z.re
\* .imag
Imag(z) == z.im
\* float * complex
CScale(x, z) == CMul(CReal(x), z)
\* complex / float, for x # 0
CQuot(z, x) == Cx(RQuot(z.re, x), RQuot(z.im, x))
CWithin(z, m) == /\ ~RLess(R(m), RAbs(z.re))
                 /\ ~RLess(R(m), RAbs(z.im))

\* What a division by zero does: Python floats and complexes raise
\* ZeroDivisionError, numpy scalars return a non-finite value (inf or nan).
PyDivZero == "ZeroDivisionError"
NpDivZero == "nan"

Last(s) == s[Len(s)]

-----------------------------------------------------------------------------
(* _csc.py: current-source converter models *)

\* The values inp.u_dc can hold: None, a Python int/float ("float"), a callable
\* of time ("callable", t |-> a + b*t), or a number that is neither an int nor
\* a float instance ("other").
UDc(kind, a, b) == [kind |-> kind, a |-> a, b |-> b]
UDcNone == UDc(None, R(0), R(0))
\* calling a callable u_dc at time tt
CallUDc(u, tt) == RAdd(u.a, RMul(u.b, tt))
\* callable(u), isinstance(u, (int, float))
Callable(u) == u.kind = "callable"
IsIntOrFloat(u) == u.kind = "float"

\* @dataclass Inputs: q_c_ab = 0j, u_c_ab = 0j, u_dc = None
Inputs == [q_c_ab |-> Z(0, 0), u_c_ab |-> Z(0, 0), u_dc |-> UDcNone]

\* @dataclass Outputs
Outputs(i_c_ab, i_dc) == [i_c_ab |-> i_c_ab, i_dc |-> i_dc]

\* CurrentSourceConverter.__init__(i_dc)
CurrentSourceConverter(i_dc) ==
    [kind |-> "algebraic", i_dc |-> i_dc, L_dc |-> None,
     inp |-> Inputs, out |-> Outputs(Z(0, 0), i_dc),
     state |-> None, history |-> None]

\* InductiveDCBusCurrentSourceConverter.__init__(i_dc, L_dc); a float state
\* x is held as x + 0j (Python's float has .real = x, .imag = 0)
InductiveDCBusCurrentSourceConverter(i_dc, L_dc) ==
    LET base == CurrentSourceConverter(i_dc)
    IN  [base EXCEPT !.kind = "inductive", !.L_dc = L_dc,
                     !.state = [i_dc |-> CReal(base.i_dc)],
                     !.history = [i_dc |-> <<>>]]

\* CurrentSourceConverter.compute_internal_dc_voltage(inp)
compute_internal_dc_voltage(inp) ==
    RMul(OneAndHalf, Real(CMul(inp.q_c_ab, CConj(inp.u_c_ab))))

\* set_outputs that also derives the DC current from the AC current
CSC_set_outputs_drift(o) ==
    [o EXCEPT !.out.i_c_ab = CScale(o.out.i_dc, o.inp.q_c_ab),
              !.out.i_dc = Real(CScale(o.out.i_dc, o.inp.q_c_ab))]

\* set_outputs with the duty ratio conjugated
CSC_set_outputs_conj(o) ==
    [o EXCEPT !.out.i_c_ab = CScale(o.out.i_dc, CConj(o.inp.q_c_ab))]

\* set_outputs that consumes the command: the duty ratio is cleared once used
CSC_set_outputs_consume(o) ==
    [o EXCEPT !.out.i_c_ab = CScale(o.out.i_dc, o.inp.q_c_ab),
              !.inp.q_c_ab = Z(0, 0)]

\* CurrentSourceConverter.set_outputs(t)
CSC_set_outputs(o) ==
    [o EXCEPT !.out.i_c_ab = CScale(o.out.i_dc, o.inp.q_c_ab)]

\* InductiveDCBusCurrentSourceConverter.set_outputs(t)
IndCSC_set_outputs(o) ==
    CSC_set_outputs([o EXCEPT !.out.i_dc = Real(o.state.i_dc)])

\* CurrentSourceConverter.meas_dc_current()
meas_dc_current(o) == o.out.i_dc

Returned(outcome, val) == [outcome |-> outcome, val |-> val]

\* CurrentSourceConverter.rhs(t): the default empty implementation
CSC_rhs(o, tt) == Returned("ok", <<>>)

\* the external DC voltage InductiveDCBusCurrentSourceConverter.rhs(t) uses
ExternalDcVoltage(u, tt) ==
    IF Callable(u) THEN CallUDc(u, tt)
    ELSE IF IsIntOrFloat(u) THEN u.a
    ELSE R(0)

\* InductiveDCBusCurrentSourceConverter.rhs(t).  u_dc_int comes out of np.conj
\* and np.real as a numpy scalar, so the division is numpy's: it does not
\* raise on a zero L_dc.
IndCSC_rhs(o, tt) ==
    LET u_dc == ExternalDcVoltage(o.inp.u_dc, tt)
        u_dc_int == compute_internal_dc_voltage(o.inp)
    IN  IF RIsZero(o.L_dc)
        THEN Returned(NpDivZero, <<NpDivZero>>)
        ELSE Returned("ok", <<RQuot(RSub(u_dc, u_dc_int), o.L_dc)>>)

\* motulator.common.utils.empty_array()
empty_array == <<>>

\* np.full(np.size(tv), x)
Full(tv, x) == [k \in 1..Len(tv) |-> x]

\* CurrentSourceConverterTimeSeries(t, subsystem): the dataclass defaults and
\* __post_init__
CurrentSourceConverterTimeSeries(tv, o) ==
    [i_dc |-> Full(tv, o.i_dc), q_c_ab |-> empty_array, i_c_ab |-> empty_array,
     u_c_ab |-> empty_array, u_dc_int |-> empty_array]

\* InductiveDCBusCurrentSourceConverterTimeSeries(t, subsystem): its
\* __post_init__ overrides the base one and stores the history as u_dc
InductiveDCBusCurrentSourceConverterTimeSeries(tv, o) ==
    [i_dc |-> empty_array, q_c_ab |-> empty_array, i_c_ab |-> empty_array,
     u_c_ab |-> empty_array, u_dc_int |-> empty_array,
     u_dc |-> o.history.i_dc]

\* method dispatch on the converter's class
SetOutputsCsc(o) ==
    IF o.kind = "inductive" THEN IndCSC_set_outputs(o) ELSE CSC_set_outputs(o)
RhsCsc(o, tt) ==
    IF o.kind = "inductive" THEN IndCSC_rhs(o, tt) ELSE CSC_rhs(o, tt)
CreateTimeSeriesCsc(tv, o) ==
    IF o.kind = "inductive"
    THEN InductiveDCBusCurrentSourceConverterTimeSeries(tv, o)
    ELSE CurrentSourceConverterTimeSeries(tv, o)


-----------------------------------------------------------------------------
(* _lc_filter.py: LC filter and inductive-resistive grid *)

\* LCFilter.__init__(C, L, R_g, u_f0_ab): state, inp = Inputs(0j, u_f0_ab),
\* out and an empty history
LCFilter(C, L, R_g, u_f0_ab) ==
    [C |-> C, L |-> L, R_g |-> R_g,
     state |-> [u_c_ab |-> u_f0_ab, i_g_ab |-> Z(0, 0)],
     inp |-> [i_c_ab |-> Z(0, 0), e_g_ab |-> u_f0_ab],
     out |-> [u_c_ab |-> u_f0_ab, i_g_ab |-> Z(0, 0)],
     history |-> [u_c_ab |-> <<>>, i_g_ab |-> <<>>]]

\* LCFilter.pcc_voltage(state, inp)
pcc_voltage(o, state, inp) == CSub(inp.e_g_ab, CScale(o.R_g, state.i_g_ab))

\* LCFilter.set_outputs(t)
LC_set_outputs(o) ==
    [o EXCEPT !.out.u_c_ab = o.state.u_c_ab, !.out.i_g_ab = o.state.i_g_ab]

\* LCFilter.rhs(t).  dz is what a division by zero does with the operands at
\* hand: Python complexes raise, numpy complexes give a non-finite value.
LC_rhs(o, tt, dz) ==
    LET state == o.state
        inp == o.inp
        num_u == CSub(inp.i_c_ab, state.i_g_ab)
        num_i == CSub(CSub(state.u_c_ab, inp.e_g_ab),
                      CScale(o.R_g, state.i_g_ab))
    IN  IF RIsZero(o.C)
        THEN IF dz = PyDivZero
             THEN Returned(PyDivZero, <<>>)
             ELSE IF RIsZero(o.L)
                  THEN Returned(NpDivZero, <<NpDivZero, NpDivZero>>)
                  ELSE Returned(NpDivZero, <<NpDivZero, CQuot(num_i, o.L)>>)
        ELSE IF RIsZero(o.L)
             THEN IF dz = PyDivZero
                  THEN Returned(PyDivZero, <<>>)
                  ELSE Returned(NpDivZero, <<CQuot(num_u, o.C), NpDivZero>>)
             ELSE Returned("ok", <<CQuot(num_u, o.C), CQuot(num_i, o.L)>>)

\* LCFilterTimeSeries(t, subsystem): the dataclass defaults and __post_init__
LCFilterTimeSeries(tv, o) ==
    [u_c_ab |-> o.history.u_c_ab, i_g_ab |-> o.history.i_g_ab,
     i_c_ab |-> empty_array, e_g_ab |-> empty_array, u_g_ab |-> empty_array]

\* a phase quantity r + s*sqrt(3), r and s rational
Surd(r, s) == [r |-> r, s |-> s]

\* motulator.common.utils.complex2abc(u): the phase values
\* u.real, (-u.real + sqrt(3)*u.imag)/2, (-u.real - sqrt(3)*u.imag)/2
complex2abc(u) ==
    LET half == Rat(1, 2)
    IN  <<Surd(u.re, R(0)),
          Surd(RNeg(RMul(half, u.re)), RMul(half, u.im)),
          Surd(RNeg(RMul(half, u.re)), RNeg(RMul(half, u.im)))>>

\* LCFilter.meas_grid_currents()
meas_grid_currents(o) == complex2abc(o.state.i_g_ab)

\* LCFilter.meas_capacitor_voltages()
meas_capacitor_voltages(o) == complex2abc(o.state.u_c_ab)

-----------------------------------------------------------------------------
(* _csc_open_loop.py: PLL and open-loop controller *)

\* pi, in quarter turns
Pi == 2

RFloor(a) == a.n \div a.d

\* motulator.common.utils.wrap(theta): into [-pi, pi)
wrap(theta) ==
    LET x == RAdd(theta, R(Pi))
        k == RFloor(RQuot(x, R(2 * Pi)))
    IN  RSub(RSub(x, R(2 * Pi * k)), R(Pi))

\* cmath.exp(-1j * theta) for theta on the quarter-turn grid
ExpNegJ(theta) ==
    LET k == theta.n % 4
    IN  CASE k = 0 -> Z(1, 0)
          [] k = 1 -> Z(0, -1)
          [] k = 2 -> Z(-1, 0)
          [] k = 3 -> Z(0, 1)

\* @dataclass PLLStates
PLLStates(w_g, theta_c, u_g) == [w_g |-> w_g, theta_c |-> theta_c, u_g |-> u_g]

\* @dataclass PLLOutputSignals: every field defaults to zero
PLLOutputSignals ==
    [i_c |-> Z(0, 0), u_c |-> Z(0, 0), u_g |-> R(0), u_g_meas |-> Z(0, 0),
     theta_c |-> R(0), w_g |-> R(0), w_c |-> R(0), p_g |-> R(0), q_g |-> R(0),
     eps |-> R(0)]

\* PLL.__init__(u_nom, w_nom, alpha_pll)
PLL(u_nom, w_nom, alpha_pll) ==
    [k_p |-> RMul(R(2), alpha_pll), k_i |-> RMul(alpha_pll, alpha_pll),
     state |-> PLLStates(w_nom, R(0), u_nom)]

\* the error signal guarded against a zero magnitude only
ErrorSignal_nonzero(u_g_meas, u_g) ==
    IF u_g.n # 0 THEN RQuot(Imag(u_g_meas), u_g) ELSE R(0)

\* the error signal of PLL.compute_output
ErrorSignal(u_g_meas, u_g) ==
    IF RLess(R(0), u_g) THEN RQuot(Imag(u_g_meas), u_g) ELSE R(0)

\* PLL.compute_output(u_c_ab, i_c_ab, u_g_meas_ab)
PLL_compute_output(p, u_c_ab, i_c_ab, u_g_meas_ab) ==
    LET theta_c == p.state.theta_c
        w_g == p.state.w_g
        i_c == CMul(ExpNegJ(theta_c), i_c_ab)
        u_c == CMul(ExpNegJ(theta_c), u_c_ab)
        u_g_meas == CMul(ExpNegJ(theta_c), u_g_meas_ab)
        u_g == p.state.u_g
        eps == ErrorSignal(u_g_meas, p.state.u_g)
        w_c == RAdd(w_g, RMul(p.k_p, eps))
        s_g == CScale(RMul(OneAndHalf, u_g), CConj(i_c))
    IN  [i_c |-> i_c, u_c |-> u_c, u_g |-> u_g, u_g_meas |-> u_g_meas,
         theta_c |-> theta_c, w_g |-> w_g, w_c |-> w_c,
         p_g |-> Real(s_g), q_g |-> Imag(s_g), eps |-> eps]

\* update with the magnitude filter fed by the q component
PLL_update_imag(p, T_s, out) ==
    LET theta_c == wrap(RAdd(p.state.theta_c, RMul(T_s, out.w_c)))
        w_g == RAdd(p.state.w_g, RMul(RMul(T_s, p.k_i), out.eps))
        u_g == RAdd(p.state.u_g,
                    RMul(RMul(T_s, p.k_p),
                         RSub(Imag(out.u_g_meas), p.state.u_g)))
    IN  [p EXCEPT !.state = PLLStates(w_g, theta_c, u_g)]

\* update with the frequency estimate stored before the phase is advanced, so
\* that the phase integrates the already updated w_g
PLL_update_partial(p, T_s, out) ==
    LET w_g == RAdd(p.state.w_g, RMul(RMul(T_s, p.k_i), out.eps))
        theta_c == wrap(RAdd(p.state.theta_c,
                             RMul(T_s, RAdd(w_g, RMul(p.k_p, out.eps)))))
        u_g == RAdd(p.state.u_g,
                    RMul(RMul(T_s, p.k_p),
                         RSub(Real(out.u_g_meas), p.state.u_g)))
    IN  [p EXCEPT !.state = PLLStates(w_g, theta_c, u_g)]

\* PLL.update(T_s, out): the three statements in order
PLL_update(p, T_s, out) ==
    LET theta_c == wrap(RAdd(p.state.theta_c, RMul(T_s, out.w_c)))
        w_g == RAdd(p.state.w_g, RMul(RMul(T_s, p.k_i), out.eps))
        u_g == RAdd(p.state.u_g,
                    RMul(RMul(T_s, p.k_p),
                         RSub(Real(out.u_g_meas), p.state.u_g)))
    IN  [p EXCEPT !.state = PLLStates(w_g, theta_c, u_g)]

\* @dataclass References
References(T_s, i_c, p_g, q_g) ==
    [T_s |-> T_s, u_c |-> Z(0, 0), i_c |-> i_c, p_g |-> p_g, q_g |-> q_g,
     u_dc |-> None]

\* OpenLoopController.__init__(..., u_nom, w_nom, alpha_pll, T_s)
OpenLoopController(u_nom, w_nom, alpha_pll, T_s) ==
    [pll |-> PLL(u_nom, w_nom, alpha_pll), T_s |-> T_s]

\* OpenLoopController.get_feedback(u_c_ab, meas)
get_feedback(c, u_c_ab, meas) ==
    PLL_compute_output(c.pll, u_c_ab, meas.i_c_ab, meas.u_g_ab)

\* OpenLoopController.compute_output(p_g_ref, q_g_ref, fbk).  dz is what the
\* division does on a zero 1.5*fbk.u_g: a Python float raises, a numpy float
\* (state.u_g after an update from a numpy measurement) gives a non-finite i_c.
OLC_compute_output(c, p_g_ref, q_g_ref, f, dz) ==
    LET den == RMul(OneAndHalf, f.u_g)
        num == CSub(CReal(p_g_ref), CMul(Z(0, 1), CReal(q_g_ref)))
    IN  IF RIsZero(den)
        THEN IF dz = PyDivZero
             THEN Returned(PyDivZero, <<>>)
             ELSE Returned(NpDivZero,
                           <<References(c.T_s, NpDivZero, p_g_ref, q_g_ref)>>)
        ELSE Returned("ok",
                      <<References(c.T_s, CQuot(num, den), p_g_ref, q_g_ref)>>)

\* OpenLoopController.update(ref, fbk)
OLC_update(c, ref, f) == [c EXCEPT !.pll = PLL_update(c.pll, ref.T_s, f)]


-----------------------------------------------------------------------------
(* The values the driver and the constructors are given *)

DcCurrents == {R(0), R(3), R(10)}
DcInductances == {R(0), R(1), R(2)}
DutyRatios == {Z(0, 0), Z(1, 0), Z(0, 1)}
ConverterVoltages == {Z(0, 0), Z(2, 0), Z(0, 2)}
DcVoltages ==
    {UDcNone, UDc("float", R(3), R(0)), UDc("callable", R(3), R(0)),
     UDc("callable", R(0), R(1)), UDc("other", R(3), R(0))}
DcVoltageFunctions == {u \in DcVoltages : u.kind = "callable"}
StepSizes == {R(1)}

Capacitances == {R(1), R(2)}
GridInductances == {R(0), R(1)}
GridResistances == {R(0), R(1)}
InitialCapacitorVoltages == {Z(0, 0), Z(2, 0)}
InjectedCurrents == {Z(0, 0), Z(5, 0)}
GridVoltages == {Z(0, 0), Z(2, 0)}
DivZeroOutcomes == {PyDivZero, NpDivZero}

Called(sys, op, r) ==
    [sys |-> sys, op |-> op, outcome |-> r.outcome, val |-> r.val]
Constructed == Called(None, "__init__", Returned("ok", <<>>))

\* the time the driver has reached
Now == IF Len(t) = 0 THEN R(0) ELSE Last(t)

-----------------------------------------------------------------------------
(* Operations on the converter *)

\* the driver writes inp.q_c_ab
CscWriteDuty(q) ==
    /\ csc' = [csc EXCEPT !.inp.q_c_ab = q]
    /\ written' = written \cup {"q_c_ab"}
    /\ ret' = Called("csc", "write", Returned("ok", <<>>))
    /\ UNCHANGED <<lc, ctrl, fbk, grid, t>>

\* the driver writes inp.u_c_ab
CscWriteVoltage(u) ==
    /\ csc' = [csc EXCEPT !.inp.u_c_ab = u]
    /\ written' = written \cup {"u_c_ab"}
    /\ ret' = Called("csc", "write", Returned("ok", <<>>))
    /\ UNCHANGED <<lc, ctrl, fbk, grid, t>>

\* the driver writes inp.u_dc
CscWriteDcVoltage(u) ==
    /\ csc' = [csc EXCEPT !.inp.u_dc = u]
    /\ written' = written \cup {"u_dc"}
    /\ ret' = Called("csc", "write", Returned("ok", <<>>))
    /\ UNCHANGED <<lc, ctrl, fbk, grid, t>>

\* set_external_dc_voltage(u_dc): the base class raises NotImplementedError
CscSetExternalDcVoltage(u) ==
    /\ IF csc.kind = "inductive"
       THEN /\ csc' = [csc EXCEPT !.inp.u_dc = u]
            /\ written' = written \cup {"u_dc"}
            /\ ret' = Called("csc", "set_external_dc_voltage",
                             Returned("ok", <<>>))
       ELSE /\ ret' = Called("csc", "set_external_dc_voltage",
                             Returned("NotImplementedError", <<>>))
            /\ UNCHANGED <<csc, written>>
    /\ UNCHANGED <<lc, ctrl, fbk, grid, t>>

\* set_outputs(t)
CscSetOutputs ==
    /\ csc' = SetOutputsCsc(csc)
    /\ ret' = Called("csc", "set_outputs", Returned("ok", <<>>))
    /\ UNCHANGED <<lc, ctrl, fbk, grid, t, written>>

\* rhs(t)
CscRhs ==
    /\ ret' = Called("csc", "rhs", RhsCsc(csc, Now))
    /\ UNCHANGED <<csc, lc, ctrl, fbk, grid, t, written>>

\* meas_dc_current()
CscMeasDcCurrent ==
    /\ ret' = Called("csc", "meas_dc_current",
                     Returned("ok", <<meas_dc_current(csc)>>))
    /\ UNCHANGED <<csc, lc, ctrl, fbk, grid, t, written>>

\* create_time_series(t)
CscCreateTimeSeries ==
    /\ ret' = Called("csc", "create_time_series",
                     Returned("ok", <<"converter", CreateTimeSeriesCsc(t, csc)>>))
    /\ UNCHANGED <<csc, lc, ctrl, fbk, grid, t, written>>

\* record(): append the state to the history (a converter without state has
\* no history)
RecordCsc(o) ==
    IF o.kind = "inductive"
    THEN [o EXCEPT !.history.i_dc = Append(@, o.state.i_dc)]
    ELSE o

\* the run starts at t = 0 and the driver records the initial state
CscStart ==
    /\ Len(t) = 0
    /\ t' = <<R(0)>>
    /\ csc' = RecordCsc(csc)
    /\ ret' = Called("csc", "start", Returned("ok", <<>>))
    /\ UNCHANGED <<lc, ctrl, fbk, grid, written>>

\* the states after one integrator step of size h with derivatives d
AdvanceCsc(o, d, h) ==
    IF o.kind = "inductive"
    THEN [o EXCEPT !.state.i_dc = CAdd(@, CReal(RMul(h, d[1])))]
    ELSE o

\* one accepted integrator step: the derivative is evaluated, the state
\* advanced and recorded; a non-finite derivative ends the run
CscStep(h) ==
    /\ Len(t) >= 1
    /\ Len(t) < MaxSteps
    /\ LET r == RhsCsc(csc, Now)
       IN  /\ r.outcome = "ok"
           /\ LET o == AdvanceCsc(csc, r.val, h)
              IN  /\ csc.kind = "inductive" => CWithin(o.state.i_dc, MaxAbs)
                  /\ csc' = RecordCsc(o)
    /\ t' = Append(t, RAdd(Now, h))
    /\ ret' = Called("csc", "step", Returned("ok", <<>>))
    /\ UNCHANGED <<lc, ctrl, fbk, grid, written>>

NextCSC ==
    \/ \E q \in DutyRatios : CscWriteDuty(q)
    \/ \E u \in ConverterVoltages : CscWriteVoltage(u)
    \/ \E u \in DcVoltages : CscWriteDcVoltage(u)
    \/ \E u \in DcVoltageFunctions : CscSetExternalDcVoltage(u)
    \/ CscSetOutputs
    \/ CscRhs
    \/ CscMeasDcCurrent
    \/ CscCreateTimeSeries
    \/ CscStart
    \/ \E h \in StepSizes : CscStep(h)

\* the objects a specification does not exercise
IdleCsc == CurrentSourceConverter(R(0))
IdleLc == LCFilter(R(1), R(1), R(0), Z(0, 0))
IdleCtrl == OpenLoopController(R(1), R(1), R(1), R(1))
IdleGrid == [e |-> R(0), w |-> R(0), theta |-> R(0)]

InitCSC ==
    /\ csc \in {CurrentSourceConverter(i) : i \in DcCurrents}
               \cup {InductiveDCBusCurrentSourceConverter(i, L) :
                         i \in DcCurrents, L \in DcInductances}
    /\ lc = IdleLc
    /\ ctrl = IdleCtrl
    /\ fbk = PLLOutputSignals
    /\ grid = IdleGrid
    /\ t = <<>>
    /\ written = {}
    /\ ret = Constructed

SpecCSC == InitCSC /\ [][NextCSC]_vars


-----------------------------------------------------------------------------
(* Operations on the LC filter *)

\* the driver writes inp.i_c_ab
LcWriteCurrent(i) ==
    /\ lc' = [lc EXCEPT !.inp.i_c_ab = i]
    /\ written' = written \cup {"i_c_ab"}
    /\ ret' = Called("lc", "write", Returned("ok", <<>>))
    /\ UNCHANGED <<csc, ctrl, fbk, grid, t>>

\* the driver writes inp.e_g_ab
LcWriteGridVoltage(e) ==
    /\ lc' = [lc EXCEPT !.inp.e_g_ab = e]
    /\ written' = written \cup {"e_g_ab"}
    /\ ret' = Called("lc", "write", Returned("ok", <<>>))
    /\ UNCHANGED <<csc, ctrl, fbk, grid, t>>

\* set_outputs(t)
LcSetOutputs ==
    /\ lc' = LC_set_outputs(lc)
    /\ ret' = Called("lc", "set_outputs", Returned("ok", <<>>))
    /\ UNCHANGED <<csc, ctrl, fbk, grid, t, written>>

\* rhs(t)
LcRhs(dz) ==
    /\ ret' = Called("lc", "rhs", LC_rhs(lc, Now, dz))
    /\ UNCHANGED <<csc, lc, ctrl, fbk, grid, t, written>>

\* create_time_series(t)
LcCreateTimeSeries ==
    /\ ret' = Called("lc", "create_time_series",
                     Returned("ok", <<"ac_filter", LCFilterTimeSeries(t, lc)>>))
    /\ UNCHANGED <<csc, lc, ctrl, fbk, grid, t, written>>

\* meas_grid_currents()
LcMeasGridCurrents ==
    /\ ret' = Called("lc", "meas_grid_currents",
                     Returned("ok", meas_grid_currents(lc)))
    /\ UNCHANGED <<csc, lc, ctrl, fbk, grid, t, written>>

\* meas_capacitor_voltages()
LcMeasCapacitorVoltages ==
    /\ ret' = Called("lc", "meas_capacitor_voltages",
                     Returned("ok", meas_capacitor_voltages(lc)))
    /\ UNCHANGED <<csc, lc, ctrl, fbk, grid, t, written>>

\* record(): append the states to the history
RecordLc(o) ==
    [o EXCEPT !.history.u_c_ab = Append(@, o.state.u_c_ab),
              !.history.i_g_ab = Append(@, o.state.i_g_ab)]

\* the run starts at t = 0 and the driver records the initial state
LcStart ==
    /\ Len(t) = 0
    /\ t' = <<R(0)>>
    /\ lc' = RecordLc(lc)
    /\ ret' = Called("lc", "start", Returned("ok", <<>>))
    /\ UNCHANGED <<csc, ctrl, fbk, grid, written>>

\* the states after one integrator step of size h with derivatives d
AdvanceLc(o, d, h) ==
    [o EXCEPT !.state.u_c_ab = CAdd(@, CScale(h, d[1])),
              !.state.i_g_ab = CAdd(@, CScale(h, d[2]))]

\* one accepted integrator step: the derivative is evaluated, the state
\* advanced and recorded; a failed or non-finite derivative ends the run
LcStep(h) ==
    /\ Len(t) >= 1
    /\ Len(t) < MaxSteps
    /\ \E dz \in DivZeroOutcomes :
         LET r == LC_rhs(lc, Now, dz)
         IN  /\ r.outcome = "ok"
             /\ LET o == AdvanceLc(lc, r.val, h)
                IN  /\ CWithin(o.state.u_c_ab, MaxAbs)
                    /\ CWithin(o.state.i_g_ab, MaxAbs)
                    /\ lc' = RecordLc(o)
    /\ t' = Append(t, RAdd(Now, h))
    /\ ret' = Called("lc", "step", Returned("ok", <<>>))
    /\ UNCHANGED <<csc, ctrl, fbk, grid, written>>

NextLC ==
    \/ \E i \in InjectedCurrents : LcWriteCurrent(i)
    \/ \E e \in GridVoltages : LcWriteGridVoltage(e)
    \/ LcSetOutputs
    \/ \E dz \in DivZeroOutcomes : LcRhs(dz)
    \/ LcMeasGridCurrents
    \/ LcMeasCapacitorVoltages
    \/ LcCreateTimeSeries
    \/ LcStart
    \/ \E h \in StepSizes : LcStep(h)

InitLC ==
    /\ lc \in {LCFilter(C, L, R_g, u) :
                   C \in Capacitances, L \in GridInductances,
                   R_g \in GridResistances, u \in InitialCapacitorVoltages}
    /\ csc = IdleCsc
    /\ ctrl = IdleCtrl
    /\ fbk = PLLOutputSignals
    /\ grid = IdleGrid
    /\ t = <<>>
    /\ written = {}
    /\ ret = Constructed

SpecLC == InitLC /\ [][NextLC]_vars

-----------------------------------------------------------------------------
(* Either subsystem: a run exercises the converter or the filter.  The two
   objects share no state, so a run stays with the one it started on and the
   other stays as constructed. *)

OnConverter == ret.sys # "lc" /\ lc = IdleLc
OnFilter == ret.sys # "csc" /\ csc = IdleCsc

NextSubsystems ==
    \/ \E q \in DutyRatios : OnConverter /\ CscWriteDuty(q)
    \/ \E u \in ConverterVoltages : OnConverter /\ CscWriteVoltage(u)
    \/ \E u \in DcVoltages : OnConverter /\ CscWriteDcVoltage(u)
    \/ \E u \in DcVoltageFunctions : OnConverter /\ CscSetExternalDcVoltage(u)
    \/ OnConverter /\ CscSetOutputs
    \/ OnConverter /\ CscRhs
    \/ OnConverter /\ CscMeasDcCurrent
    \/ OnConverter /\ CscCreateTimeSeries
    \/ OnConverter /\ CscStart
    \/ \E h \in StepSizes : OnConverter /\ CscStep(h)
    \/ \E i \in InjectedCurrents : OnFilter /\ LcWriteCurrent(i)
    \/ \E e \in GridVoltages : OnFilter /\ LcWriteGridVoltage(e)
    \/ OnFilter /\ LcSetOutputs
    \/ \E dz \in DivZeroOutcomes : OnFilter /\ LcRhs(dz)
    \/ OnFilter /\ LcMeasGridCurrents
    \/ OnFilter /\ LcMeasCapacitorVoltages
    \/ OnFilter /\ LcCreateTimeSeries
    \/ OnFilter /\ LcStart
    \/ \E h \in StepSizes : OnFilter /\ LcStep(h)

InitSubsystems == InitCSC \/ InitLC

SpecSubsystems == InitSubsystems /\ [][NextSubsystems]_vars


-----------------------------------------------------------------------------
(* Operations on the controller: one control sample is get_feedback, then
   compute_output, then update *)

NominalVoltages == {R(0), R(1), R(2)}
NominalFrequencies == {R(0), R(1)}
Bandwidths == {R(1), R(2)}
SamplingPeriods == {R(1)}
MeasuredVoltages == {Z(0, 0), Z(2, 0), Z(0, 2), Z(-2, 0), Z(2, -2)}
MeasuredCurrents == {Z(0, 0), Z(1, 1)}
PowerReferences == {R(0), R(3)}

\* @dataclass Measurements (motulator.grid.control._base)
Measurements(i_c_ab, u_g_ab) == [i_c_ab |-> i_c_ab, u_g_ab |-> u_g_ab]

\* fbk = ctrl.get_feedback(u_c_ab, meas); the phase must be on the grid for
\* the rotation to be exact
CtrlGetFeedback(u_c_ab, meas) ==
    /\ RIsInt(ctrl.pll.state.theta_c)
    /\ fbk' = get_feedback(ctrl, u_c_ab, meas)
    /\ ret' = Called("ctrl", "get_feedback", Returned("ok", <<>>))
    /\ UNCHANGED <<csc, lc, ctrl, grid, t, written>>

\* ref = ctrl.compute_output(p_g_ref, q_g_ref, fbk)
CtrlComputeOutput(p_g_ref, q_g_ref, dz) ==
    /\ ret.sys = "ctrl"
    /\ ret.op = "get_feedback"
    /\ ret' = Called("ctrl", "compute_output",
                     OLC_compute_output(ctrl, p_g_ref, q_g_ref, fbk, dz))
    /\ UNCHANGED <<csc, lc, ctrl, fbk, grid, t, written>>

\* ctrl.update(ref, fbk); a raised compute_output has aborted the sample
UpdateCtrl ==
    /\ ret.sys = "ctrl"
    /\ ret.op = "compute_output"
    /\ ret.outcome # PyDivZero
    /\ LET c == OLC_update(ctrl, ret.val[1], fbk)
       IN  /\ ~RLess(R(MaxPll), RAbs(c.pll.state.w_g))
           /\ ~RLess(R(MaxPll), RAbs(c.pll.state.u_g))
           /\ ctrl' = c
    /\ ret' = Called("ctrl", "update", Returned("ok", <<>>))
    /\ UNCHANGED <<csc, lc, fbk, t, written>>

CtrlUpdate == UpdateCtrl /\ UNCHANGED grid

NextPLL ==
    \/ \E u \in ConverterVoltages, i \in MeasuredCurrents,
          v \in MeasuredVoltages :
         CtrlGetFeedback(u, Measurements(i, v))
    \/ \E p \in PowerReferences, q \in PowerReferences,
          dz \in DivZeroOutcomes :
         CtrlComputeOutput(p, q, dz)
    \/ CtrlUpdate

InitPLL ==
    /\ ctrl \in {OpenLoopController(u, w, a, T_s) :
                     u \in NominalVoltages, w \in NominalFrequencies,
                     a \in Bandwidths, T_s \in SamplingPeriods}
    /\ csc = IdleCsc
    /\ lc = IdleLc
    /\ fbk = PLLOutputSignals
    /\ grid = IdleGrid
    /\ t = <<>>
    /\ written = {}
    /\ ret = Constructed

SpecPLL == InitPLL /\ [][NextPLL]_vars

-----------------------------------------------------------------------------
(* The locked scenario: the PCC voltage is a balanced voltage of constant
   magnitude and frequency, the PLL is constructed with these as its nominal
   values, and both angles start at zero *)

GridMagnitudes == {R(0), R(1), R(2), R(3)}
GridFrequencies == {R(0), R(1), R(2), R(3)}

\* the space vector e*exp(j*theta) of the grid voltage
GridVoltage(g) == CScale(g.e, CConj(ExpNegJ(g.theta)))

\* a sample's measurement of the grid voltage
LockedGetFeedback(u_c_ab, i_c_ab) ==
    CtrlGetFeedback(u_c_ab, Measurements(i_c_ab, GridVoltage(grid)))

\* the update that ends the sample; the grid turns by T_s*w until the next
LockedUpdate ==
    /\ UpdateCtrl
    /\ grid' = [grid EXCEPT !.theta = wrap(RAdd(@, RMul(ctrl.T_s, grid.w)))]

NextLocked ==
    \/ \E u \in ConverterVoltages, i \in MeasuredCurrents :
         LockedGetFeedback(u, i)
    \/ \E p \in PowerReferences, q \in PowerReferences,
          dz \in DivZeroOutcomes :
         CtrlComputeOutput(p, q, dz)
    \/ LockedUpdate

InitLocked ==
    /\ \E e \in GridMagnitudes, w \in GridFrequencies,
          a \in Bandwidths, T_s \in SamplingPeriods :
         /\ RIsInt(RMul(T_s, w))
         /\ grid = [e |-> e, w |-> w, theta |-> R(0)]
         /\ ctrl = OpenLoopController(e, w, a, T_s)
    /\ csc = IdleCsc
    /\ lc = IdleLc
    /\ fbk = PLLOutputSignals
    /\ t = <<>>
    /\ written = {}
    /\ ret = Constructed

SpecLocked == InitLocked /\ [][NextLocked]_vars


-----------------------------------------------------------------------------
(* Claims *)

IsCall(sys, op) == ret.sys = sys /\ ret.op = op

\* C1: the algebraic converter's DC current output, its measurement and every
\* sample of its reconstructed i_dc time series equal the configured i_dc,
\* whatever inputs were written and whatever calls were made.
C1_DcCurrentConstant ==
    csc.kind = "algebraic" =>
        /\ csc.out.i_dc = csc.i_dc
        /\ IsCall("csc", "meas_dc_current") => ret.val[1] = csc.i_dc
        /\ IsCall("csc", "create_time_series") =>
               /\ Len(ret.val[2].i_dc) = Len(t)
               /\ \A k \in 1..Len(t) : ret.val[2].i_dc[k] = csc.i_dc

C1_Witness ==
    /\ csc.kind = "algebraic"
    /\ csc.i_dc = R(10)
    /\ written = {"q_c_ab", "u_c_ab", "u_dc"}
    /\ csc.out.i_c_ab = Z(0, 10)
    /\ IsCall("csc", "create_time_series")
    /\ Len(t) = 2

\* the DC-bus current set_outputs multiplies the duty ratio by
DcBusCurrent ==
    IF csc.kind = "algebraic" THEN csc.i_dc ELSE csc.state.i_dc.re

\* C2: after set_outputs the AC output current is the duty space vector times
\* the DC-bus current, component by component and without a conjugate; with
\* i_dc = 10 and q_c_ab = 1+0j it is exactly 10+0j.
C2_AcCurrentIsDutyTimesDc ==
    IsCall("csc", "set_outputs") =>
        /\ csc.out.i_c_ab = Cx(RMul(csc.inp.q_c_ab.re, DcBusCurrent),
                               RMul(csc.inp.q_c_ab.im, DcBusCurrent))
        /\ (/\ csc.kind = "algebraic"
            /\ csc.i_dc = R(10)
            /\ csc.inp.q_c_ab = Z(1, 0)) => csc.out.i_c_ab = Z(10, 0)

C2_Witness ==
    /\ IsCall("csc", "set_outputs")
    /\ csc.kind = "inductive"
    /\ csc.state.i_dc # CReal(csc.i_dc)
    /\ csc.inp.q_c_ab = Z(0, 1)
    /\ csc.out.i_c_ab # Z(0, 0)

\* the external and the internal DC voltage of the converter, written out
ExternalNow == ExternalDcVoltage(csc.inp.u_dc, Now)
InternalNow ==
    RMul(Rat(3, 2),
         RAdd(RMul(csc.inp.q_c_ab.re, csc.inp.u_c_ab.re),
              RMul(csc.inp.q_c_ab.im, csc.inp.u_c_ab.im)))

\* C3: rhs of the inductive-DC-bus converter returns exactly one derivative,
\* (u_dc_external - u_dc_internal)/L_dc, and that derivative is zero whenever
\* the external voltage equals the internal one.
C3_DerivativeIsPowerBalance ==
    (IsCall("csc", "rhs") /\ csc.kind = "inductive") =>
        /\ ret.outcome = "ok"
        /\ Len(ret.val) = 1
        /\ RMul(ret.val[1], csc.L_dc) = RSub(ExternalNow, InternalNow)
        /\ ExternalNow = InternalNow => ret.val[1] = R(0)

\* C4: with L = 0, R_g = 0, zero initial capacitor voltage and the inputs held
\* at i_c_ab = 5+0j and e_g_ab = 0, every rhs succeeds with d(u_c)/dt = 5/C.
C4_CapacitorRamp ==
    (/\ IsCall("lc", "rhs")
     /\ RIsZero(lc.L)
     /\ RIsZero(lc.R_g)
     /\ lc.state.u_c_ab = Z(0, 0)
     /\ lc.state.i_g_ab = Z(0, 0)
     /\ lc.inp.i_c_ab = Z(5, 0)
     /\ lc.inp.e_g_ab = Z(0, 0)) =>
        /\ ret.outcome = "ok"
        /\ ret.val[1] = Cx(RQuot(R(5), lc.C), R(0))

\* C5: a PLL whose nominal voltage and frequency are those of the measured
\* voltage, started with zero phase error, stays locked: every sample's eps is
\* zero and w_g and u_g keep their nominal values through every update.
C5_StaysLocked ==
    /\ ctrl.pll.state.w_g = grid.w
    /\ ctrl.pll.state.u_g = grid.e
    /\ fbk.eps = R(0)
    /\ IsCall("ctrl", "get_feedback") => fbk.u_g_meas = CReal(grid.e)

C5_Witness ==
    /\ IsCall("ctrl", "update")
    /\ grid.e = R(2)
    /\ grid.w = R(1)
    /\ ctrl.pll.state.theta_c = R(-2)

\* C6: create_time_series gives, under each state's own name, the recorded
\* history of that state: as long as the time vector, and starting at the
\* configured initial condition.
C6_TimeSeriesIsHistory ==
    (/\ IsCall("csc", "create_time_series")
     /\ csc.kind = "inductive"
     /\ ~RIsZero(csc.L_dc)) =>
        /\ ret.val[2].i_dc = csc.history.i_dc
        /\ Len(ret.val[2].i_dc) = Len(t)
        /\ Len(t) > 0 => ret.val[2].i_dc[1] = CReal(csc.i_dc)

\* C7: eps is Im(rotated measured voltage)/u_g when u_g > 0 and zero for every
\* u_g <= 0, where the frame speed is then w_g.
C7_ErrorSignalGuarded ==
    IsCall("ctrl", "get_feedback") =>
        /\ RLess(R(0), ctrl.pll.state.u_g) =>
               RMul(fbk.eps, ctrl.pll.state.u_g) = fbk.u_g_meas.im
        /\ ~RLess(R(0), ctrl.pll.state.u_g) =>
               fbk.eps = R(0) /\ fbk.w_c = ctrl.pll.state.w_g

C7_Witness ==
    /\ IsCall("ctrl", "get_feedback")
    /\ RLess(ctrl.pll.state.u_g, R(0))
    /\ fbk.u_g_meas.im # R(0)

\* C8: a control sample run while the filtered magnitude u_g is 0 completes
\* without a division-by-zero failure.
C8_SampleSurvivesZeroMagnitude ==
    (IsCall("ctrl", "compute_output") /\ RIsZero(fbk.u_g)) =>
        ret.outcome # PyDivZero

\* C9: an LCFilter with L = 0 is rejected at construction, so no rhs is ever
\* evaluated on one.
C9_ZeroInductanceRejected ==
    IsCall("lc", "rhs") => ~RIsZero(lc.L)

\* C10: rhs on a filter whose inputs i_c_ab and e_g_ab were not both written
\* by the driver since construction fails; it returns no derivative.
C10_UnsetInputFailsFast ==
    (IsCall("lc", "rhs") /\ ~({"i_c_ab", "e_g_ab"} \subseteq written)) =>
        ret.outcome # "ok"

\* the constant c configured as a callable that returns c at every time
AsCallable(u) == UDc("callable", u.a, R(0))
\* a numeric constant held in inp.u_dc, whatever its Python type
NumericConstant(u) == u.kind \in {"float", "other"}

\* C11: rhs of the inductive-DC-bus converter returns, with inp.u_dc set to a
\* numeric constant c, the same derivative as with inp.u_dc set to a callable
\* that returns c at time t; the external voltage is taken as 0 only when
\* inp.u_dc is None.
C11_BothFormsTransparent ==
    (IsCall("csc", "rhs") /\ csc.kind = "inductive") =>
        /\ NumericConstant(csc.inp.u_dc) =>
               ret.val = IndCSC_rhs([csc EXCEPT !.inp.u_dc =
                                         AsCallable(csc.inp.u_dc)], Now).val
        /\ (NumericConstant(csc.inp.u_dc) /\ ~RIsZero(csc.inp.u_dc.a)) =>
               ~RIsZero(ExternalNow)

\* what one control sample does to the PLL, by the call that was made
PllSampleStep ==
    LET s == ctrl.pll.state
        k_p == ctrl.pll.k_p
        k_i == ctrl.pll.k_i
        T_s == ctrl.T_s
    IN  /\ (ret'.sys = "ctrl" /\ ret'.op = "get_feedback") =>
               /\ ctrl' = ctrl
               /\ fbk'.theta_c = s.theta_c
               /\ fbk'.w_g = s.w_g
               /\ fbk'.u_g = s.u_g
        /\ (ret'.sys = "ctrl" /\ ret'.op = "compute_output") => ctrl' = ctrl
        /\ (ret'.sys = "ctrl" /\ ret'.op = "update") =>
               /\ ctrl'.pll.state.theta_c =
                      wrap(RAdd(s.theta_c,
                                RMul(T_s, RAdd(s.w_g, RMul(k_p, fbk.eps)))))
               /\ ctrl'.pll.state.w_g =
                      RAdd(s.w_g, RMul(T_s, RMul(k_i, fbk.eps)))
               /\ ctrl'.pll.state.u_g =
                      RAdd(s.u_g,
                           RMul(T_s, RMul(k_p, RSub(fbk.u_g_meas.re, s.u_g))))
               /\ ctrl'.pll.k_p = k_p
               /\ ctrl'.pll.k_i = k_i
               /\ ctrl'.T_s = T_s
        /\ \E alpha_pll \in Bandwidths :
               /\ k_p = RMul(R(2), alpha_pll)
               /\ k_i = RMul(alpha_pll, alpha_pll)

\* C12: compute_output leaves the PLL state unchanged and reports theta_c, w_g
\* and u_g of the pre-update state; update sets theta_c, w_g and u_g from the
\* pre-update state and the outputs of the sample only, with k_p = 2*alpha_pll
\* and k_i = alpha_pll^2.
C12_SimultaneousUpdate == [][PllSampleStep]_vars

\* an update has moved all three PLL states away from the reported ones
C12_Witness ==
    /\ IsCall("ctrl", "update")
    /\ ~RIsZero(fbk.eps)
    /\ ctrl.pll.state.theta_c # fbk.theta_c
    /\ ctrl.pll.state.w_g # fbk.w_g
    /\ ctrl.pll.state.u_g # fbk.u_g
    /\ ctrl.pll.k_p # ctrl.pll.k_i

\* the calls that only read the subsystem
ReadOnlyCalls ==
    {"rhs", "meas_dc_current", "meas_grid_currents",
     "meas_capacitor_voltages", "create_time_series"}

\* what one call does to the converter and to the filter
SubsystemFrame ==
    /\ ret'.op = "set_outputs" =>
           /\ csc' = [csc EXCEPT !.out = csc'.out]
           /\ lc' = [lc EXCEPT !.out = lc'.out]
           /\ ret'.sys = "csc" =>
                  csc'.out.i_c_ab = CScale(csc'.out.i_dc, csc.inp.q_c_ab)
    /\ ret'.op \in ReadOnlyCalls =>
           /\ csc' = csc
           /\ lc' = lc
    /\ ret'.op # "write" =>
           /\ csc'.inp.q_c_ab = csc.inp.q_c_ab
           /\ csc'.inp.u_c_ab = csc.inp.u_c_ab
           /\ lc'.inp = lc.inp

\* C13: on the algebraic converter, the inductive-DC-bus converter and the LC
\* filter, set_outputs changes only the outputs, and rhs, the measurement
\* accessors and create_time_series change none of state, inputs, outputs and
\* history; the command inp.q_c_ab changes only when the driver writes it and
\* set_outputs reads it as written.
C13_OnlyOutputsWritten == [][SubsystemFrame]_vars

\* a written command has been held over the run's steps and the calls on the
\* inductive-DC-bus converter, the last of which built the time series
C13_Witness ==
    /\ IsCall("csc", "create_time_series")
    /\ csc.kind = "inductive"
    /\ "q_c_ab" \in written
    /\ csc.inp.q_c_ab = Z(0, 1)
    /\ Len(csc.history.i_dc) >= 2
    /\ ~RIsZero(csc.out.i_dc)
    /\ csc.out.i_c_ab = CScale(csc.out.i_dc, Z(0, 1))
    /\ csc.state.i_dc # CReal(csc.i_dc)

====
